---- MODULE Spec2Model ----
(***************************************************************************)
(* Phase7/create_Phase7_2020_counties.py: border cells of the 10 m extent  *)
(* raster are vectorized into zones, joined against the rasterized county  *)
(* layer, assigned to the county sharing most area with them in the        *)
(* original county layer, and dissolved into that county's boundary.       *)
(*                                                                         *)
(* Geometry is abstracted as follows.  The extent raster is a one-row      *)
(* strip of NumCells cells.  A county boundary in the index is the         *)
(* boundary loaded for it plus the set of zones dissolved into it, so the  *)
(* loaded boundary is the empty set of zones.  The spatial join and the    *)
(* intersection areas are results of geometry the script reads from its    *)
(* input files; they are drawn from bounded sets when the files are read.  *)
(* The rasterized layer holds one row per county (distinct gridcodes), and *)
(* only its NumTouching counties of smallest gridcode are joined to zones. *)
(* The iterations of the county loop for counties joined to no zone change *)
(* nothing but the loop position and are taken in one step.                *)
(***************************************************************************)
EXTENDS Integers, Sequences, FiniteSets, TLC

\* ---------------------------------------------------------------- bounds
NumCells == 1
NumTouching == 2
MaxArea == 2

\* ------------------------------------------------------ program constants
ExpectedCount == 205
FullCell == 100
NoBorder == 0

CellValues == {0, 50, 75, 100}

VARIABLES
    countyPath,   \* which rasterized county layer is at countyPath
    county_origPath, \* which original county layer is at county_origPath
    pc,           \* position in run()
    err,          \* the exception run() ended with, "none" while it has raised nothing
    borderCells,  \* zone ids of the vectorized border cells
    tab,          \* sjoin(cnties, borderCells): pairs <<GEOID, zone>>
    area,         \* area of zone /\ original county geometry, per pair of tab
    cnties,       \* the county index: GEOID |-> zones dissolved into the loaded boundary
    i,            \* position of the county loop in geoids
    dissolveList, \* pairs <<g, z>>: z was in zones of line 126 when g was processed
    removeZones,  \* pairs <<g, z>>: z was in remove_zones when g was processed
    mergeFailed,  \* counties whose geometry replacement of line 137 raised
    output        \* the layer written to outputPath, "none" before the write

vars == <<countyPath, county_origPath, pc, err, borderCells, tab, area,
          cnties, i, dissolveList, removeZones, mergeFailed, output>>

\* ---------------------------------------------------------------- helpers
Range(s) == {s[k] : k \in DOMAIN s}

Reverse(s) == [k \in 1..Len(s) |-> s[Len(s) + 1 - k]]

GeoidsFrom(first, n) == [k \in 1..n |-> first + k - 1]

Max(S) == CHOOSE m \in S : \A x \in S : x <= m

Min(S) == CHOOSE m \in S : \A x \in S : m <= x

\* The gridcode column, in row order, of the rasterized county layers the script
\* may find: the expected number of counties in either row order and with a
\* county of gridcode 0, and layers a row short or a row long
CountyLayers ==
    [ascending  |-> GeoidsFrom(1, ExpectedCount),
     descending |-> Reverse(GeoidsFrom(1, ExpectedCount)),
     zero       |-> GeoidsFrom(0, ExpectedCount),
     short      |-> GeoidsFrom(1, ExpectedCount - 1),
     long       |-> GeoidsFrom(1, ExpectedCount + 1)]

\* The GEOID column, in row order, of the original layers: the same counties in
\* ascending order, in descending order, or without the county of the largest GEOID
OrigLayersOf(cf) ==
    LET asc == GeoidsFrom(Min(Range(cf)), Len(cf))
    IN  [same |-> asc, reversed |-> Reverse(asc), lacking |-> SubSeq(asc, 1, Len(cf) - 1)]

OrigLayers == [f \in DOMAIN CountyLayers |-> OrigLayersOf(CountyLayers[f])]

\* the layers found together at countyPath and county_origPath
LayerPairs ==
    {<<"ascending", "same">>, <<"descending", "same">>, <<"zero", "same">>,
     <<"ascending", "reversed">>, <<"ascending", "lacking">>,
     <<"short", "same">>, <<"long", "same">>}

\* the row of each GEOID in a layer
RowOf(layer) == [g \in Range(layer) |-> CHOOSE k \in DOMAIN layer : layer[k] = g]

OrigRows ==
    [f \in DOMAIN CountyLayers |->
        [o \in DOMAIN OrigLayers[f] |-> RowOf(OrigLayers[f][o])]]

CountyRows == [f \in DOMAIN CountyLayers |-> RowOf(CountyLayers[f])]

\* line 98: list(cnties['GEOID'])
geoids == CountyLayers[countyPath]

\* the position of each county in geoids
countyRow == CountyRows[countyPath]

\* lines 89-91
origCnties == OrigLayers[countyPath][county_origPath]

origRow == OrigRows[countyPath][county_origPath]

\* ------------------------------------------------------ steps 1 and 2
\* line 66: ary = np.where(ary == 100, 0, ary)
DropFull(ary) == [k \in DOMAIN ary |-> IF ary[k] = FullCell THEN NoBorder ELSE ary[k]]

\* line 76: ary = np.where(mask, 0, ary)
MaskOut(mask, ary) == [k \in DOMAIN ary |-> IF mask[k] THEN NoBorder ELSE ary[k]]

\* lines 18-19: astype(np.uint8)
AsUint8(ary) == [k \in DOMAIN ary |-> ary[k] % 256]

\* line 23: shapes(unique_array, mask=unique_array.astype(bool)): one shape per
\* maximal run of equal non-zero cells of the strip
ShapeStarts(ary) ==
    {k \in DOMAIN ary : ary[k] # 0 /\ (k = 1 \/ ary[k - 1] # ary[k])}

\* lines 27-32: the zones of the strip; from_features of no feature has no LC
\* column, and line 31 raises
VectorizeRaises(ary) == ShapeStarts(AsUint8(ary)) = {}

vectorizeRaster(ary) == 1..Cardinality(ShapeStarts(AsUint8(ary)))

\* ------------------------------------------------------------ shared_area
\* line 114: the counties joined to zone z
OCnties(z) == {p[1] : p \in {q \in tab : q[2] = z}}

\* an overlay that keeps the rows of counties sharing no area with the zone
OverlayAllRows(o_cnties, z) == {c \in o_cnties : c \in DOMAIN origRow}

\* lines 44-45 and 116: rows of gpd.overlay(df1, df2, how='intersection'), by
\* GEOID: the counties of o_cnties that are in the original layer and whose
\* intersection with the zone is a polygon
OverlayRows(o_cnties, z) ==
    {c \in o_cnties : c \in DOMAIN origRow /\ area[<<c, z>>] > 0}

\* lines 46-49 on an overlay without rows: the maximum of no area selects no row
\* and [0] raises
SharedAreaRaises(o_cnties, z) == OverlayRows(o_cnties, z) = {}

\* np.amin in place of np.amax
SharedAreaMin(o_cnties, z) ==
    LET rows == OverlayRows(o_cnties, z)
        mn == Min({area[<<c, z>>] : c \in rows})
        best == {c \in rows : area[<<c, z>>] = mn}
    IN  CHOOSE c \in best : \A d \in best : origRow[c] <= origRow[d]

\* lines 46-51: the GEOID of the first row holding the maximum area
shared_area(o_cnties, z) ==
    LET rows == OverlayRows(o_cnties, z)
        mx == Max({area[<<c, z>>] : c \in rows})
        best == {c \in rows : area[<<c, z>>] = mx}
    IN  CHOOSE c \in best : \A d \in best : origRow[c] <= origRow[d]

\* ------------------------------------------------------- the county loop
\* line 104: the zones joined to county g
ZonesOf(g) == {z \in borderCells : <<g, z>> \in tab}

\* line 115
Contested(z) == Cardinality(OCnties(z)) > 1

\* line 116 raises for z
RaisesIndexError(g, z) == Contested(z) /\ SharedAreaRaises(OCnties(z), z)

\* lines 117-120 raise for z
RaisesZeroBorder(g, z) ==
    /\ Contested(z)
    /\ ~SharedAreaRaises(OCnties(z), z)
    /\ shared_area(OCnties(z), z) # g
    /\ shared_area(OCnties(z), z) = 0

\* remove_zones that is never appended to
RemoveNothing(g) == {}

\* remove_zones that takes every zone joined to several counties
RemoveContested(g) == {z \in ZonesOf(g) : Contested(z)}

\* lines 111-118: remove_zones of county g when no zone raises
RemoveZones(g) ==
    {z \in ZonesOf(g) : Contested(z) /\ shared_area(OCnties(z), z) # g}

\* lines 121-123: ct counts the iterations over zones and cannot pass len(zones)
LoopGuardRaises(g) == Cardinality(ZonesOf(g)) > Cardinality(ZonesOf(g))

\* a zone goes to the first county processed that is joined to it
FirstCome(g) == {z \in ZonesOf(g) : \A p \in dissolveList : p[2] # z}

\* line 126
ZonesToDissolve(g) == ZonesOf(g) \ RemoveZones(g)

\* ----------------------------------------------------------------- Init
Start ==
    /\ pc = "extent"
    /\ err = "none"
    /\ borderCells = {}
    /\ tab = {}
    /\ area = <<>>
    /\ cnties = <<>>
    /\ i = 0
    /\ dissolveList = {}
    /\ removeZones = {}
    /\ mergeFailed = {}
    /\ output = "none"

Init ==
    /\ \E p \in LayerPairs : countyPath = p[1] /\ county_origPath = p[2]
    /\ Start

Raise(e) == pc' = "raised" /\ err' = e

\* lines 62-82: read the extent raster and the county mask, vectorize
ReadExtent ==
    /\ pc = "extent"
    /\ \E ras \in [1..NumCells -> CellValues], mask \in [1..NumCells -> BOOLEAN] :
          LET ary == MaskOut(mask, DropFull(ras))
          IN  IF VectorizeRaises(ary)
              THEN /\ Raise("AttributeError")
                   /\ UNCHANGED borderCells
              ELSE /\ borderCells' = vectorizeRaster(ary)
                   /\ pc' = "counties"
                   /\ UNCHANGED err
    /\ UNCHANGED <<countyPath, county_origPath, tab, area, cnties, i,
                   dissolveList, removeZones, mergeFailed, output>>

\* the counties of the layer that border zones may touch
Touching(cf) == {cf[k] : k \in {j \in DOMAIN cf : cf[j] < Min(Range(cf)) + NumTouching}}

\* areas are read for contested zones only
Areas(t) ==
    {a \in [t -> 0..MaxArea] :
        \A p \in t : Cardinality({q \in t : q[2] = p[2]}) = 1 => a[p] = 0}

\* lines 84-95: read both county layers and join the rasterized one to the zones
ReadCounties ==
    /\ pc = "counties"
    /\ cnties' = [g \in Range(geoids) |-> {}]
    /\ \E t \in SUBSET (Touching(geoids) \X borderCells) :
          /\ tab' = t
          /\ area' \in Areas(t)
    /\ pc' = "count"
    /\ UNCHANGED <<countyPath, county_origPath, err, borderCells, i,
                   dissolveList, removeZones, mergeFailed, output>>

\* a test that lets a layer with too few rows pass
CountAbove == Len(geoids) > ExpectedCount

\* line 99
InvalidCount == Len(geoids) # ExpectedCount

\* lines 98-101
CheckCount ==
    /\ pc = "count"
    /\ IF InvalidCount
       THEN /\ Raise("TypeError: Invalid county count")
            /\ UNCHANGED i
       ELSE /\ pc' = "loop"
            /\ i' = 1
            /\ UNCHANGED err
    /\ UNCHANGED <<countyPath, county_origPath, borderCells, tab, area, cnties,
                   dissolveList, removeZones, mergeFailed, output>>

\* the zones are dissolved into every county joined to one of them
ReplaceJoined(g, zs) ==
    [c \in DOMAIN cnties |->
        IF c = g \/ \E z \in zs : <<c, z>> \in tab THEN cnties[c] \cup zs ELSE cnties[c]]

\* the row of g is dropped and nothing is appended
ReplaceDropping(g, zs) == [c \in DOMAIN cnties \ {g} |-> cnties[c]]

\* lines 131-137: the dissolved geometry replaces the boundary of g
Replace(g, zs) == [cnties EXCEPT ![g] = @ \cup zs]

\* the position of the first county from position k on that is joined to a zone,
\* Len(geoids) + 1 when there is none
NextJoined(k) ==
    LET joined == {p[1] : p \in tab}
    IN  Min({j \in k..Len(geoids) : geoids[j] \in joined} \cup {Len(geoids) + 1})

\* lines 102-108: the iterations for counties joined to no zone only continue;
\* one step takes the loop past all of them up to the next county joined to a zone
SkipCounties ==
    /\ pc = "loop"
    /\ i <= Len(geoids)
    /\ ZonesOf(geoids[i]) = {}
    /\ i' = NextJoined(i)
    /\ UNCHANGED <<countyPath, county_origPath, pc, err, borderCells, tab, area, cnties,
                   dissolveList, removeZones, mergeFailed, output>>

\* lines 102-141: the iteration for a county joined to some zone
ProcessCounty ==
    /\ pc = "loop"
    /\ i <= Len(geoids)
    /\ ZonesOf(geoids[i]) # {}
    /\ LET g == geoids[i]
           zones == ZonesOf(g)
       IN  \/ \* line 116 raises inside shared_area
              /\ \E z \in zones : RaisesIndexError(g, z)
              /\ Raise("IndexError")
              /\ UNCHANGED <<i, cnties, dissolveList, removeZones, mergeFailed>>
           \/ \* line 120
              /\ \E z \in zones : RaisesZeroBorder(g, z)
              /\ Raise("TypeError: Shared area analysis resulted in 0 border area")
              /\ UNCHANGED <<i, cnties, dissolveList, removeZones, mergeFailed>>
           \/ \* line 123
              /\ LoopGuardRaises(g)
              /\ Raise("TypeError: Infinite loop?")
              /\ UNCHANGED <<i, cnties, dissolveList, removeZones, mergeFailed>>
           \/ \* lines 126-127: nothing left to dissolve
              /\ \A z \in zones : ~RaisesIndexError(g, z) /\ ~RaisesZeroBorder(g, z)
              /\ ZonesToDissolve(g) = {}
              /\ removeZones' = removeZones \cup ({g} \X RemoveZones(g))
              /\ i' = i + 1
              /\ UNCHANGED <<pc, err, cnties, dissolveList, mergeFailed>>
           \/ \* lines 127-137: the replacement succeeds
              /\ \A z \in zones : ~RaisesIndexError(g, z) /\ ~RaisesZeroBorder(g, z)
              /\ ZonesToDissolve(g) # {}
              /\ removeZones' = removeZones \cup ({g} \X RemoveZones(g))
              /\ dissolveList' = dissolveList \cup ({g} \X ZonesToDissolve(g))
              /\ cnties' = Replace(g, ZonesToDissolve(g))
              /\ i' = i + 1
              /\ UNCHANGED <<pc, err, mergeFailed>>
           \/ \* lines 138-139: the replacement raises; the handler evaluates the
              \* unbound name index before drop is called
              /\ \A z \in zones : ~RaisesIndexError(g, z) /\ ~RaisesZeroBorder(g, z)
              /\ ZonesToDissolve(g) # {}
              /\ removeZones' = removeZones \cup ({g} \X RemoveZones(g))
              /\ dissolveList' = dissolveList \cup ({g} \X ZonesToDissolve(g))
              /\ mergeFailed' = mergeFailed \cup {g}
              /\ Raise("NameError")
              /\ UNCHANGED <<i, cnties>>
    /\ UNCHANGED <<countyPath, county_origPath, borderCells, tab, area, output>>

\* lines 143-145
Write ==
    /\ pc = "loop"
    /\ i > Len(geoids)
    /\ output' = cnties
    /\ pc' = "written"
    /\ UNCHANGED <<countyPath, county_origPath, err, borderCells, tab, area,
                   cnties, i, dissolveList, removeZones, mergeFailed>>

Next == ReadExtent \/ ReadCounties \/ CheckCount \/ SkipCounties \/ ProcessCounty \/ Write

Spec == Init /\ [][Next]_vars

\* ------------------------------------------------------------ properties
\* the counties into whose dissolve list zone z went
DissolvedInto(z) == {p[1] : p \in {q \in dissolveList : q[2] = z}}

\* the area zone z shares with the original geometry of county c
AreaIn(c, z) == IF c \in DOMAIN origRow THEN area[<<c, z>>] ELSE 0

\* C1: every zone is in the zones-to-dissolve list of at most one county.
C1_AtMostOneOwner ==
    \A z \in borderCells : Cardinality(DissolvedInto(z)) <= 1

C1_Witness ==
    /\ pc = "written"
    /\ \E z \in borderCells :
          /\ Cardinality(OCnties(z)) = NumTouching
          /\ Cardinality(DissolvedInto(z)) = 1
          /\ \A c \in OCnties(z) \ DissolvedInto(z) : <<c, z>> \in removeZones

\* C2: a zone joined to several counties is dissolved only into a county whose
\* original geometry shares the maximum area with it among those counties, and
\* once every county is processed it is in remove_zones, and not in the dissolve
\* list, of every other county joined to it.
C2_OwnerHasMaxArea ==
    \A z \in borderCells :
        Contested(z) =>
            /\ \A g \in DissolvedInto(z) :
                  /\ g \in OCnties(z)
                  /\ \A c \in OCnties(z) : AreaIn(c, z) <= AreaIn(g, z)
            /\ \A c \in OCnties(z) : ~(<<c, z>> \in dissolveList /\ <<c, z>> \in removeZones)
            /\ pc = "written" =>
                  \E g \in OCnties(z) :
                      /\ DissolvedInto(z) = {g}
                      /\ z \in output[g]
                      /\ \A c \in OCnties(z) \ {g} :
                            <<c, z>> \in removeZones /\ z \notin output[c]

C2_Witness ==
    /\ pc = "written"
    /\ \E z \in borderCells : \E a, b \in OCnties(z) :
          /\ AreaIn(a, z) > AreaIn(b, z)
          /\ AreaIn(b, z) > 0
          /\ <<a, z>> \in dissolveList
          /\ <<b, z>> \in removeZones

\* C3: when the output is written, every zone joined to at least one county has
\* been dissolved into some county.
C3_NoZoneLeftOver ==
    pc = "written" =>
        \A z \in borderCells :
            OCnties(z) # {} => \E g \in OCnties(z) : <<g, z>> \in dissolveList /\ z \in output[g]

C3_Witness ==
    /\ pc = "written"
    /\ \E z \in borderCells : Contested(z) /\ \E g \in OCnties(z) : z \in output[g]
    /\ countyPath = "zero"

\* C4: a failed replacement of the boundary of county g does not abort the run,
\* and g stays in the index with the zones dissolved into it.
C4_MergeFailureContained ==
    \A g \in mergeFailed :
        /\ pc # "raised"
        /\ g \in DOMAIN cnties
        /\ \A p \in dissolveList : p[1] = g => p[2] \in cnties[g]

\* what may not have happened once a layer with a wrong county count is read
NothingDone ==
    /\ pc \notin {"loop", "written"}
    /\ output = "none"
    /\ dissolveList = {}
    /\ \A g \in DOMAIN cnties : cnties[g] = {}

\* lines 84-95 have run
CountiesRead == pc \in {"count", "loop", "written"} \/ (pc = "raised" /\ cnties # <<>>)

\* C5 as stated: once an original county layer that has not ExpectedCount rows is
\* read, the run never gets past the count check.
C5_OrigCountChecked ==
    (CountiesRead /\ Len(origCnties) # ExpectedCount) => NothingDone

\* C5 amended: once a rasterized county layer that has not ExpectedCount rows is
\* read, the run raises at the count check, before any boundary is modified and
\* before anything is written.
C5_CountyCountChecked ==
    (CountiesRead /\ Len(geoids) # ExpectedCount) =>
        /\ NothingDone
        /\ pc = "raised" => err = "TypeError: Invalid county count"

C5_Witness ==
    /\ pc = "raised"
    /\ err = "TypeError: Invalid county count"
    /\ Len(geoids) = ExpectedCount - 1
    /\ tab # {}

\* a zone joined to several counties none of which shares area with it
ZeroShared(z) == Contested(z) /\ \A c \in OCnties(z) : AreaIn(c, z) = 0

\* C6: a zone joined to several counties whose largest shared area is zero is
\* never dissolved, the loop does not get past a county joined to it, and no
\* output is written.
C6_ZeroSharedAreaAborts ==
    \A z \in borderCells :
        ZeroShared(z) =>
            /\ output = "none"
            /\ pc # "written"
            /\ DissolvedInto(z) = {}
            /\ \A g \in DOMAIN cnties : z \notin cnties[g]
            /\ pc = "loop" => \A c \in OCnties(z) : countyRow[c] >= i

C6_Witness ==
    /\ pc = "raised"
    /\ err = "IndexError"
    /\ \E z \in borderCells : ZeroShared(z) /\ \E c \in OCnties(z) : countyRow[c] = i

\* C7: a county with an empty zones-to-dissolve list keeps the boundary loaded for
\* it, in the index and in the written output: a boundary that differs from the
\* loaded one belongs to a county with a zone in its dissolve list.
C7_UntouchedCountyUnchanged ==
    \A g \in DOMAIN cnties :
        (cnties[g] # {} \/ (pc = "written" /\ output[g] # {})) =>
            \E p \in dissolveList : p[1] = g

C7_Witness ==
    /\ pc = "written"
    /\ \E g \in DOMAIN output :
          /\ ZonesOf(g) # {}
          /\ \A p \in dissolveList : p[1] # g
          /\ output[g] = {}
          /\ \E c \in DOMAIN output : output[c] = ZonesOf(g)

\* C8: the written index holds ExpectedCount counties.
C8_CountPreserved ==
    pc = "written" => Cardinality(DOMAIN output) = ExpectedCount

C8_Witness ==
    /\ pc = "written"
    /\ dissolveList # {}
    /\ Cardinality(DOMAIN output) = ExpectedCount

\* C9: a run whose raster yields no border zone raises nothing.
C9_NoZonesIsNoError ==
    (pc # "extent" /\ borderCells = {}) => pc # "raised"

\* the county a zone belongs to, from the join and the areas alone: none for a
\* zone joined to no county
OwnersOf(z) ==
    IF OCnties(z) = {} THEN {}
    ELSE IF Contested(z) THEN {shared_area(OCnties(z), z)}
    ELSE OCnties(z)

\* C10: the written index is the one the join, the zones and the original layer
\* determine, whatever the row order of the rasterized layer: it holds the counties
\* of the layer, each with exactly the zones it owns.
C10_OrderIndependent ==
    pc = "written" =>
        /\ DOMAIN output = Range(geoids)
        /\ \A z \in borderCells :
              LET owners == OwnersOf(z)
              IN  \A g \in DOMAIN output : z \in output[g] <=> g \in owners

C10_Witness ==
    /\ pc = "written"
    /\ countyPath = "descending"
    /\ \E z \in borderCells : \E g \in OCnties(z) :
          /\ z \in output[g]
          /\ \E c \in OCnties(z) : countyRow[c] < countyRow[g]

====
